---- MODULE Spec2Model ----
(***************************************************************************)
(* Model of the Zep Cloud MCP server (src/src/index.ts): the call-tool     *)
(* request handler, its seven tool cases, the remote Zep service it calls  *)
(* and the text it formats from the remote responses.                      *)
(*                                                                         *)
(* A text is a sequence of string pieces, in the order the template        *)
(* literals of the source concatenate them; a JavaScript object is a       *)
(* function whose domain is the set of keys that are present, so that an   *)
(* omitted argument is a key outside the domain (undefined).               *)
(***************************************************************************)
EXTENDS Integers, Sequences, FiniteSets, TLC

VARIABLES pc, request, calls, locals, result, seen, users, threads, stored

vars == <<pc, request, calls, locals, result, seen, users, threads, stored>>

----------------------------------------------------------------------------
(* Bounds of the model.                                                    *)

\* longest thread the remote store holds before further stores are refused
MaxThreadLen == 2
\* longest collection (messages, edges, nodes) a remote response carries
MaxItems == 2

----------------------------------------------------------------------------
(* JavaScript objects.                                                     *)

EmptyObj == [k \in {} |-> ""]
Has(obj, k) == k \in DOMAIN obj
\* the objects with at most the key k, its value among vals
Opt(k, vals) == {EmptyObj} \cup {k :> v : v \in vals}
\* the values of an argument whose type the handler does not check: a number,
\* a string, null
Num(n) == [type |-> "number", value |-> n]
Str(x) == [type |-> "string", value |-> x]
Null == [type |-> "null"]

\* `${v}` of a possibly missing string property
StrOf(obj, k) == IF Has(obj, k) THEN obj[k] ELSE "undefined"
\* a string property that is present and truthy (not the empty string)
Truthy(obj, k) == Has(obj, k) /\ obj[k] # ""
\* a number property that is present and truthy (not zero)
TruthyNum(obj, k) == Has(obj, k) /\ obj[k] # 0

\* Array.prototype.join over a sequence of texts
RECURSIVE Join(_, _)
Join(texts, sep) ==
  IF Len(texts) = 0 THEN <<>>
  ELSE IF Len(texts) = 1 THEN texts[1]
  ELSE texts[1] \o <<sep>> \o Join(Tail(texts), sep)

\* a text is empty when every piece of it is the empty string
IsEmptyText(t) == \A i \in 1..Len(t) : t[i] = ""
\* the piece c occurs in the text
Contains(t, c) == \E i \in 1..Len(t) : t[i] = c
\* the text begins with the pieces of p
StartsWith(t, p) == Len(p) <= Len(t) /\ SubSeq(t, 1, Len(p)) = p

\* key order of JSON.stringify for the metadata objects of the model
MetaKeys == <<"category", "stored_at">>
\* key order of JSON.stringify for the error objects of the model; the
\* message of an Error is not enumerable and is never serialized
ErrorKeys == <<"code">>
\* JSON.stringify of an object with string values
JSONStringify(obj, keys) ==
  LET present == SelectSeq(keys, LAMBDA k : Has(obj, k))
      entry(k) == <<"\"", k, "\":\"", obj[k], "\"">>
  IN <<"{">> \o Join([i \in 1..Len(present) |-> entry(present[i])], ",") \o <<"}">>

----------------------------------------------------------------------------
(* The tool catalog of the list-tools handler.                             *)

Catalog == <<
  [name |-> "zep_store_memory", required |-> {"session_id", "content"}],
  [name |-> "zep_search_memory", required |-> {"session_id", "query"}],
  [name |-> "zep_get_memory", required |-> {"session_id"}],
  [name |-> "zep_get_graph_nodes", required |-> {}],
  [name |-> "zep_get_graph_edges", required |-> {}],
  [name |-> "zep_get_node_details", required |-> {"node_uuid"}],
  [name |-> "zep_get_thread_context", required |-> {"session_id"}] >>

ToolNames == {Catalog[i].name : i \in 1..Len(Catalog)}
Required(name) == Catalog[CHOOSE i \in 1..Len(Catalog) : Catalog[i].name = name].required

----------------------------------------------------------------------------
(* Inputs: the requests a client sends and the answers of the remote.      *)

Slots == {1}
DefaultUser == "default_user"
Sessions == {"s1"}
Contents == {"c1"}
Metadatas == {EmptyObj, [category |-> "note"]}
Queries == {"q1"}
Limits == {5}
Nums == {0, 2}
Roles == {"user", "assistant", "system"}
NodeUuids == {"n1"}
Modes == {"basic"}
\* what a client can send as limit: a number, or null or a string
LimitValues == {Num(n) : n \in Limits} \cup {Null, Str("lots")}
\* what a client can send as mode: a mode of the enum, or a string outside
\* it, null or a number
ModeValues == {Str(m) : m \in Modes} \cup {Str("full"), Null, Num(1)}
UnknownNames == {"zep_delete_memory", "zep_forget"}
Timestamps == {"2024-01-01T00:00:00.000Z"}

\* the errors a remote call rejects with: Error objects with a message, an
\* Error with an empty message, an error object without a message
RemoteErrors == {[message |-> <<"unauthorized">>], [message |-> <<"">>],
                 [code |-> "ECONNRESET"]}

\* all sequences over S of length at most n
SeqsUpTo(S, n) == UNION {[1..k -> S] : k \in 0..n}

Pending == [status |-> "pending"]
Failed(e) == [status |-> "failed", error |-> e]
Resolved(v) == [status |-> "ok", value |-> v]
\* the promise resolves with undefined
ResolvedUndefined == [status |-> "ok"]
Failures == {Failed(e) : e \in RemoteErrors}

----------------------------------------------------------------------------
(* The call-tool handler: results.                                         *)

TextResult(text) == [content |-> <<[type |-> "text", text |-> text]>>]

\* error.message alone, without the serialized fallback
ErrorTextNoFallback(error) ==
  IF Has(error, "message") THEN error.message ELSE <<"undefined">>

\* error.message || JSON.stringify(error)
ErrorText(error) ==
  IF Has(error, "message") /\ ~IsEmptyText(error.message)
  THEN error.message
  ELSE JSONStringify(error, ErrorKeys)

\* the catch block of the handler
CatchResult(error) ==
  [content |-> <<[type |-> "text", text |-> <<"Error: ">> \o ErrorText(error)]>>,
   isError |-> TRUE]

IsError(res) == Has(res, "isError") /\ res.isError

\* the TypeError of destructuring an undefined arguments object
DestructureError(key) ==
  [message |-> <<"Cannot destructure property '", key, "' of 'args' as it is undefined.">>]
\* the TypeError of reading a property of undefined
ReadError(key) ==
  [message |-> <<"Cannot read properties of undefined (reading '", key, "')">>]
\* an Error of the default case that does not name the tool
UnknownToolErrorUnnamed(name) == [message |-> <<"Unknown tool">>]
\* the Error of the default case
UnknownToolError(name) == [message |-> <<"Unknown tool: ", name>>]

NoRequest == [method |-> "", name |-> "", hasArgs |-> FALSE, args |-> EmptyObj]
NoResult == EmptyObj

Init ==
  /\ pc = [s \in Slots |-> "idle"]
  /\ request = [s \in Slots |-> NoRequest]
  /\ calls = [s \in Slots |-> <<>>]
  /\ locals = [s \in Slots |-> EmptyObj]
  /\ result = [s \in Slots |-> NoResult]
  /\ seen = [s \in Slots |-> {}]
  /\ users = {}
  /\ threads = EmptyObj
  /\ stored = {}

\* the handler is entered with a request: request.params is destructured
Enter(slot, name, hasArgs, args) ==
  /\ pc[slot] = "idle"
  /\ request' = [request EXCEPT ![slot] =
                   [method |-> "tools/call", name |-> name, hasArgs |-> hasArgs, args |-> args]]
  /\ seen' = [seen EXCEPT ![slot] = stored]

\* the handler returns res
Return(slot, res) ==
  /\ pc' = [pc EXCEPT ![slot] = "done"]
  /\ result' = [result EXCEPT ![slot] = res]

\* the handler starts the remote call op and awaits it
Await(slot, op, params) ==
  /\ pc' = [pc EXCEPT ![slot] = op]
  /\ calls' = [calls EXCEPT ![slot] = Append(@, [op |-> op, params |-> params, outcome |-> Pending])]

\* the awaited remote call settles with outcome o
Settled(cs, o) == [cs EXCEPT ![Len(cs)] = [@ EXCEPT !.outcome = o]]

\* the awaited call settles and the handler starts the next remote call
SettleAwait(slot, o, op, params) ==
  /\ pc' = [pc EXCEPT ![slot] = op]
  /\ calls' = [calls EXCEPT ![slot] =
                 Append(Settled(@, o), [op |-> op, params |-> params, outcome |-> Pending])]

\* the awaited call settles and the handler returns res
SettleReturn(slot, o, res) ==
  /\ calls' = [calls EXCEPT ![slot] = Settled(@, o)]
  /\ Return(slot, res)

\* a request without an arguments object: the destructuring of the case
\* throws before any remote call
FirstKey(name) ==
  CASE name = "zep_get_graph_nodes" -> "limit"
    [] name = "zep_get_graph_edges" -> "limit"
    [] name = "zep_get_node_details" -> "node_uuid"
    [] OTHER -> "session_id"

CallWithoutArguments(slot) ==
  \E name \in ToolNames :
    /\ Enter(slot, name, FALSE, EmptyObj)
    /\ Return(slot, CatchResult(DestructureError(FirstKey(name))))
    /\ UNCHANGED <<calls, locals, users, threads, stored>>

\* default case of the switch
CallUnknownTool(slot) ==
  \E name \in UnknownNames, hasArgs \in BOOLEAN :
    /\ Enter(slot, name, hasArgs, EmptyObj)
    /\ Return(slot, CatchResult(UnknownToolError(name)))
    /\ UNCHANGED <<calls, locals, users, threads, stored>>

\* the result is written to the transport; the invocation is over
SendResult(slot) ==
  /\ pc[slot] = "done"
  /\ pc' = [pc EXCEPT ![slot] = "idle"]
  /\ request' = [request EXCEPT ![slot] = NoRequest]
  /\ calls' = [calls EXCEPT ![slot] = <<>>]
  /\ locals' = [locals EXCEPT ![slot] = EmptyObj]
  /\ result' = [result EXCEPT ![slot] = NoResult]
  /\ seen' = [seen EXCEPT ![slot] = {}]
  /\ UNCHANGED <<users, threads, stored>>

\* the list-tools handler: it returns the catalog at once
ListTools(slot) ==
  /\ pc[slot] = "idle"
  /\ request' = [request EXCEPT ![slot] = [NoRequest EXCEPT !.method = "tools/list"]]
  /\ seen' = [seen EXCEPT ![slot] = stored]
  /\ Return(slot, [tools |-> Catalog])
  /\ UNCHANGED <<calls, locals, users, threads, stored>>

----------------------------------------------------------------------------
(* case 'zep_store_memory'                                                 *)

StoreArguments ==
  {a @@ b @@ c : a \in Opt("session_id", Sessions), b \in Opt("content", Contents),
                 c \in Opt("metadata", Metadatas)}

\* the key under which the remote keeps the thread of a thread id
ThreadKey(params) == StrOf(params, "threadId")
ThreadMessages(key) == IF Has(threads, key) THEN threads[key] ELSE <<>>

\* a property whose value is undefined is left out of the request
Prop(key, obj, k) == IF Has(obj, k) THEN key :> obj[k] ELSE EmptyObj

UserAddParams ==
  [userId |-> DefaultUser, email |-> "default@example.com",
   firstName |-> "Claude", lastName |-> "Code"]

ThreadCreateParams(args) == Prop("threadId", args, "session_id") @@ [userId |-> DefaultUser]

\* { ...metadata, stored_at: now }
MergedMetadata(args, now) ==
  ("stored_at" :> now) @@ (IF Has(args, "metadata") THEN args.metadata ELSE EmptyObj)

\* the two messages with the assistant's metadata left unstamped
StoreMessagesUnstamped(args, now) ==
  << [role |-> "user", content |-> "Store this information"],
     [role |-> "assistant",
      metadata |-> IF Has(args, "metadata") THEN args.metadata ELSE EmptyObj]
       @@ Prop("content", args, "content") >>

StoreMessages(args, now) ==
  << [role |-> "user", content |-> "Store this information"],
     [role |-> "assistant", metadata |-> MergedMetadata(args, now)]
       @@ Prop("content", args, "content") >>

AddMessagesParams(args, now) ==
  Prop("threadId", args, "session_id") @@ [messages |-> StoreMessages(args, now)]

\* the check mark U+2713 and the arrow U+2192 of the source, as pieces
CheckMark == "[U+2713]"
Arrow == "[U+2192]"

StoredText(args) == <<CheckMark, " Stored in thread \"", StrOf(args, "session_id"), "\"">>

\* zep_store_memory that starts zep.thread.create without awaiting zep.user.add
CallStoreMemoryUnawaited(slot) ==
  \E args \in StoreArguments :
    /\ Len(ThreadMessages(StrOf(args, "session_id"))) + 2 <= MaxThreadLen
    /\ Enter(slot, "zep_store_memory", TRUE, args)
    /\ pc' = [pc EXCEPT ![slot] = "thread.create"]
    /\ calls' = [calls EXCEPT ![slot] =
                   <<[op |-> "user.add", params |-> UserAddParams, outcome |-> Pending],
                     [op |-> "thread.create", params |-> ThreadCreateParams(args),
                      outcome |-> Pending]>>]
    /\ UNCHANGED <<locals, result, users, threads, stored>>

CallStoreMemory(slot) ==
  \E args \in StoreArguments :
    /\ Len(ThreadMessages(StrOf(args, "session_id"))) + 2 <= MaxThreadLen
    /\ Enter(slot, "zep_store_memory", TRUE, args)
    /\ Await(slot, "user.add", UserAddParams)
    /\ UNCHANGED <<locals, result, users, threads, stored>>

\* zep.user.add settles; its failure is swallowed; zep.thread.create starts
UserAddSettles(slot) ==
  /\ pc[slot] = "user.add"
  /\ \E o \in {ResolvedUndefined} \cup Failures :
       /\ users' = IF o.status = "ok" THEN users \cup {DefaultUser} ELSE users
       /\ SettleAwait(slot, o, "thread.create", ThreadCreateParams(request[slot].args))
  /\ UNCHANGED <<request, locals, result, seen, threads, stored>>

\* zep.thread.create settles and its failure reaches the catch block
ThreadCreateSettlesUnswallowed(slot) ==
  /\ pc[slot] = "thread.create"
  /\ \E o \in {ResolvedUndefined} \cup Failures, now \in Timestamps :
       LET key == ThreadKey(calls[slot][Len(calls[slot])].params) IN
       IF o.status = "ok"
       THEN /\ threads' = IF ~Has(threads, key) THEN (key :> <<>>) @@ threads ELSE threads
            /\ SettleAwait(slot, o, "thread.addMessages",
                            AddMessagesParams(request[slot].args, now))
            /\ UNCHANGED result
       ELSE /\ SettleReturn(slot, o, CatchResult(o.error))
            /\ UNCHANGED threads
  /\ UNCHANGED <<request, locals, seen, users, stored>>

\* zep.thread.create settles; its failure is swallowed; addMessages starts
ThreadCreateSettles(slot) ==
  /\ pc[slot] = "thread.create"
  /\ \E o \in {ResolvedUndefined} \cup Failures, now \in Timestamps :
       LET key == ThreadKey(calls[slot][Len(calls[slot])].params) IN
       /\ threads' = IF o.status = "ok" /\ ~Has(threads, key)
                      THEN (key :> <<>>) @@ threads ELSE threads
       /\ SettleAwait(slot, o, "thread.addMessages", AddMessagesParams(request[slot].args, now))
  /\ UNCHANGED <<request, locals, result, seen, users, stored>>

\* zep.thread.addMessages settles; the handler returns or the catch block runs
AddMessagesSettles(slot) ==
  /\ pc[slot] = "thread.addMessages"
  /\ \E o \in {ResolvedUndefined} \cup Failures :
       LET args == request[slot].args
           params == calls[slot][Len(calls[slot])].params
           key == ThreadKey(params)
       IN IF o.status = "ok"
          THEN /\ threads' = (key :> (ThreadMessages(key) \o params.messages)) @@ threads
               /\ stored' = IF Has(args, "content")
                             THEN stored \cup {<<key, args.content>>} ELSE stored
               /\ SettleReturn(slot, o, TextResult(StoredText(args)))
          ELSE /\ UNCHANGED <<threads, stored>>
               /\ SettleReturn(slot, o, CatchResult(o.error))
  /\ UNCHANGED <<request, locals, seen, users>>

----------------------------------------------------------------------------
(* case 'zep_search_memory'                                                *)

SearchDefaultLimit == 10

SearchArguments ==
  {a @@ b @@ c : a \in Opt("session_id", Sessions), b \in Opt("query", Queries),
                 c \in Opt("limit", LimitValues)}

\* the edges of the knowledge graph the remote answers with
EdgeObjs ==
  {EmptyObj, [name |-> "LIKES", fact |-> ""],
   [fact |-> "Ann likes tea", name |-> "LIKES", sourceNodeName |-> "Ann",
    targetNodeName |-> "tea"]}

SearchParams(args) ==
  [userId |-> DefaultUser,
   limit |-> IF Has(args, "limit") THEN args.limit ELSE Num(SearchDefaultLimit)]
    @@ Prop("query", args, "query")

\* alt when the property is missing or falsy
OrElse(obj, k, alt) == IF Truthy(obj, k) THEN obj[k] ELSE alt

SearchEntry(edge, i) ==
  <<ToString(i), ". ", IF Truthy(edge, "fact") THEN edge.fact ELSE OrElse(edge, "name", "N/A")>>

\* the text without the sentinel fallback
NoSentinel(text, sentinel) == text

\* text || sentinel
OrSentinel(text, sentinel) == IF IsEmptyText(text) THEN <<sentinel>> ELSE text

SearchText(results) ==
  LET edges == IF Has(results, "edges") THEN results.edges ELSE <<>>
      formatted == Join([i \in 1..Len(edges) |-> SearchEntry(edges[i], i)], "\n\n")
  IN OrSentinel(formatted, "No results found")

SearchResponses ==
  {Resolved(EmptyObj)} \cup {Resolved([edges |-> es]) : es \in SeqsUpTo(EdgeObjs, MaxItems)}

CallSearchMemory(slot) ==
  \E args \in SearchArguments :
    /\ Enter(slot, "zep_search_memory", TRUE, args)
    /\ Await(slot, "graph.search", SearchParams(args))
    /\ UNCHANGED <<locals, result, users, threads, stored>>

GraphSearchSettles(slot) ==
  /\ pc[slot] = "graph.search"
  /\ \E o \in SearchResponses \cup Failures :
       SettleReturn(slot, o, IF o.status = "ok" THEN TextResult(SearchText(o.value))
                                               ELSE CatchResult(o.error))
  /\ UNCHANGED <<request, locals, seen, users, threads, stored>>

----------------------------------------------------------------------------
(* case 'zep_get_memory'                                                   *)

GetMemoryArguments ==
  {a @@ b @@ c @@ d @@ e :
     a \in Opt("session_id", Sessions), b \in Opt("lastn", Nums), c \in Opt("limit", Nums),
     d \in Opt("cursor", Nums), e \in Opt("role_filter", Roles)}

\* the options with every pagination argument passed through
RequestOptionsMerged(args) ==
  Prop("lastn", args, "lastn") @@ Prop("limit", args, "limit") @@ Prop("cursor", args, "cursor")

RequestOptions(args) ==
  IF Has(args, "lastn") THEN [lastn |-> args.lastn]
  ELSE Prop("limit", args, "limit") @@ Prop("cursor", args, "cursor")

ThreadGetParams(args) ==
  Prop("threadId", args, "session_id") @@ [options |-> RequestOptions(args)]

\* the messages with the role filter left out
RoleUnfiltered(messages, args) == messages

\* messages.filter(msg => msg.role === role_filter) when role_filter is truthy
RoleFiltered(messages, args) ==
  IF Truthy(args, "role_filter")
  THEN SelectSeq(messages, LAMBDA msg : Has(msg, "role") /\ msg.role = args.role_filter)
  ELSE messages

\* an entry that shows the role and the metadata but not the content
MessageEntryNoContent(msg, i) ==
  <<ToString(i), ". ">> \o (IF Truthy(msg, "role") THEN <<"[", msg.role, "]">> ELSE <<>>)
    \o (IF Has(msg, "metadata") /\ DOMAIN msg.metadata # {}
        THEN <<"\n   ">> \o JSONStringify(msg.metadata, MetaKeys) ELSE <<>>)

MessageEntry(msg, i) ==
  LET role == IF Truthy(msg, "role") THEN <<"[", msg.role, "]">> ELSE <<>>
      metadata == IF Has(msg, "metadata") /\ DOMAIN msg.metadata # {}
                  THEN <<"\n   ">> \o JSONStringify(msg.metadata, MetaKeys) ELSE <<>>
  IN <<ToString(i), ". ">> \o role \o <<" ", StrOf(msg, "content")>> \o metadata

Banner(args) ==
  IF Has(args, "lastn")
  THEN <<"Showing last ", ToString(args.lastn), " messages:\n\n">>
  ELSE IF Has(args, "limit")
  THEN <<"Showing up to ", ToString(args.limit), " messages">>
       \o (IF TruthyNum(args, "cursor") THEN <<" (cursor: ", ToString(args.cursor), ")">>
           ELSE <<>>)
       \o <<":\n\n">>
  ELSE <<>>

GetMemoryText(args, response) ==
  LET all == IF Has(response, "messages") THEN response.messages ELSE <<>>
      messages == RoleFiltered(all, args)
      formatted == Join([i \in 1..Len(messages) |-> MessageEntry(messages[i], i)], "\n\n")
  IN Banner(args) \o OrSentinel(formatted, "No memories found in this thread")

\* the remote answers with the messages it recorded for the thread, whatever
\* the pagination options; a thread without messages may come without the
\* messages property
ThreadGetResponses(key) ==
  {Resolved([messages |-> ThreadMessages(key)])}
    \cup (IF ThreadMessages(key) = <<>> THEN {Resolved(EmptyObj)} ELSE {})

\* zep_get_memory that creates the thread of the session before reading it
CallGetMemoryCreatingThread(slot) ==
  \E args \in GetMemoryArguments :
    /\ Enter(slot, "zep_get_memory", TRUE, args)
    /\ Await(slot, "thread.create", ThreadCreateParams(args))
    /\ UNCHANGED <<locals, result, users, threads, stored>>

CallGetMemory(slot) ==
  \E args \in GetMemoryArguments :
    /\ Enter(slot, "zep_get_memory", TRUE, args)
    /\ Await(slot, "thread.get", ThreadGetParams(args))
    /\ UNCHANGED <<locals, result, users, threads, stored>>

ThreadGetSettles(slot) ==
  /\ pc[slot] = "thread.get"
  /\ \E o \in ThreadGetResponses(ThreadKey(calls[slot][Len(calls[slot])].params)) \cup Failures :
       SettleReturn(slot, o,
         IF o.status = "ok" THEN TextResult(GetMemoryText(request[slot].args, o.value))
                            ELSE CatchResult(o.error))
  /\ UNCHANGED <<request, locals, seen, users, threads, stored>>

----------------------------------------------------------------------------
(* cases 'zep_get_graph_nodes' and 'zep_get_graph_edges'                   *)

GraphDefaultLimit == 50

GraphArguments == Opt("limit", LimitValues)

NodeObjs ==
  {EmptyObj, [name |-> "Ann", labels |-> <<>>, uuid |-> "n1"],
   [name |-> "Ann", labels |-> <<"Entity", "Person">>, uuid |-> "n1",
    summary |-> "Ann is a person"]}

\* limit || 50: the default also for a falsy limit
GraphParamsOrDefault(args) ==
  [userId |-> DefaultUser,
   limit |-> IF Has(args, "limit") /\ args.limit \notin {Null, Num(0), Str("")}
             THEN args.limit ELSE Num(GraphDefaultLimit)]

GraphParams(args) ==
  [userId |-> DefaultUser,
   limit |-> IF Has(args, "limit") THEN args.limit ELSE Num(GraphDefaultLimit)]

\* node.labels?.join(', ') || 'Unknown'
LabelsText(node) ==
  OrSentinel(IF Has(node, "labels")
             THEN Join([i \in 1..Len(node.labels) |-> <<node.labels[i]>>], ", ")
             ELSE <<>>, "Unknown")

NodeEntry(node, i) ==
  <<ToString(i), ". **", OrElse(node, "name", "Unnamed"), "** (">> \o LabelsText(node)
    \o <<")\n   UUID: ", OrElse(node, "uuid", "N/A")>>

NodesText(nodes) ==
  OrSentinel(Join([i \in 1..Len(nodes) |-> NodeEntry(nodes[i], i)], "\n\n"),
             "No nodes found in the knowledge graph")

EdgeEntry(edge, i) ==
  <<ToString(i), ". ", OrElse(edge, "sourceNodeName", "Unknown"), " ", Arrow, " ",
    OrElse(edge, "targetNodeName", "Unknown"), "\n   Fact: ", OrElse(edge, "fact", "No fact"),
    "\n   Name: ", OrElse(edge, "name", "Unnamed")>>

EdgesText(edges) ==
  OrSentinel(Join([i \in 1..Len(edges) |-> EdgeEntry(edges[i], i)], "\n\n"),
             "No edges found in the knowledge graph")

\* the remote answers with an array, or with nothing at all
NodeListResponses == {ResolvedUndefined} \cup {Resolved(ns) : ns \in SeqsUpTo(NodeObjs, MaxItems)}
EdgeListResponses == {ResolvedUndefined} \cup {Resolved(es) : es \in SeqsUpTo(EdgeObjs, MaxItems)}

CallGetGraphNodes(slot) ==
  \E args \in GraphArguments :
    /\ Enter(slot, "zep_get_graph_nodes", TRUE, args)
    /\ Await(slot, "graph.node.getByUserId", GraphParams(args))
    /\ UNCHANGED <<locals, result, users, threads, stored>>

\* the result of the nodes case: nodes.map throws when nodes is undefined
NodesResult(o) ==
  IF o.status = "failed" THEN CatchResult(o.error)
  ELSE IF ~Has(o, "value") THEN CatchResult(ReadError("map"))
  ELSE TextResult(NodesText(o.value))

\* the result of the edges case: edges.map throws when edges is undefined
EdgesResult(o) ==
  IF o.status = "failed" THEN CatchResult(o.error)
  ELSE IF ~Has(o, "value") THEN CatchResult(ReadError("map"))
  ELSE TextResult(EdgesText(o.value))

NodeGetByUserIdSettles(slot) ==
  /\ pc[slot] = "graph.node.getByUserId"
  /\ \E o \in NodeListResponses \cup Failures : SettleReturn(slot, o, NodesResult(o))
  /\ UNCHANGED <<request, locals, seen, users, threads, stored>>

CallGetGraphEdges(slot) ==
  \E args \in GraphArguments :
    /\ Enter(slot, "zep_get_graph_edges", TRUE, args)
    /\ Await(slot, "graph.edge.getByUserId", GraphParams(args))
    /\ UNCHANGED <<locals, result, users, threads, stored>>

EdgeGetByUserIdSettles(slot) ==
  /\ pc[slot] = "graph.edge.getByUserId"
  /\ \E o \in EdgeListResponses \cup Failures : SettleReturn(slot, o, EdgesResult(o))
  /\ UNCHANGED <<request, locals, seen, users, threads, stored>>

----------------------------------------------------------------------------
(* case 'zep_get_node_details'                                             *)

MaxExcerpts == 5
ExcerptLen == 100

NodeDetailsArguments == Opt("node_uuid", NodeUuids)

\* a string of n characters c, one piece per character
Chars(c, n) == [i \in 1..n |-> c]

EpisodeObjs == {EmptyObj, [content |-> Chars("x", 3)]}
\* one episode more than the excerpt list shows, each with its own content:
\* longer than an excerpt, as long as one, missing, short and empty
ManyEpisodes ==
  << [content |-> Chars("a", ExcerptLen + 1)], [content |-> Chars("b", ExcerptLen)],
     EmptyObj, [content |-> Chars("d", 3)], [content |-> <<>>],
     [content |-> Chars("f", 2)] >>
\* the episode lists the remote answers with: short ones, one as long as the
\* excerpt list and one longer
EpisodeLists ==
  SeqsUpTo(EpisodeObjs, MaxItems)
    \cup {SubSeq(ManyEpisodes, 1, n) : n \in {MaxExcerpts, MaxExcerpts + 1}}

\* the incident edges the remote answers with, or nothing at all
NodeEdgeResponses ==
  {ResolvedUndefined}
    \cup {Resolved(es) : es \in SeqsUpTo({EmptyObj, [fact |-> "Ann likes tea",
                                                      targetNodeName |-> "tea"]}, MaxItems)}

NodeUuidParams(args) == Prop("uuid", args, "node_uuid")

\* the whole content of the episode, not cut
ExcerptUncut(episode) ==
  OrSentinel(IF Has(episode, "content") THEN episode.content ELSE <<>>, "No content")

\* episode.content?.substring(0, 100) || 'No content'
Excerpt(episode) ==
  LET content == IF Has(episode, "content") THEN episode.content ELSE <<>>
      cut == SubSeq(content, 1, IF Len(content) < ExcerptLen THEN Len(content) ELSE ExcerptLen)
  IN OrSentinel(cut, "No content")

\* array.slice(0, n)
Slice(s, n) == SubSeq(s, 1, IF Len(s) < n THEN Len(s) ELSE n)

RECURSIVE Concat(_)
Concat(texts) == IF Len(texts) = 0 THEN <<>> ELSE texts[1] \o Concat(Tail(texts))

NodeDetailsText(node, edges, episodes) ==
  LET head == <<"# Node: ", OrElse(node, "name", "Unnamed"), "\n\n", "**Labels:** ">>
                \o LabelsText(node)
                \o <<"\n", "**UUID:** ", StrOf(node, "uuid"), "\n", "**Summary:** ",
                     OrElse(node, "summary", "No summary"), "\n\n">>
      relation(i) == <<ToString(i), ". ", Arrow, " ", OrElse(edges[i], "targetNodeName", "Unknown"),
                       ": ", OrElse(edges[i], "fact", "No fact"), "\n">>
      relations == IF Len(edges) > 0
                   THEN <<"## Relationships (", ToString(Len(edges)), ")\n\n">>
                        \o Concat([i \in 1..Len(edges) |-> relation(i)]) \o <<"\n">>
                   ELSE <<>>
      shown == Slice(episodes, MaxExcerpts)
      mention(i) == <<ToString(i), ". ">> \o Excerpt(shown[i]) \o <<"...\n">>
      mentions == IF Len(episodes) > 0
                  THEN <<"## Mentioned In (", ToString(Len(episodes)), " episodes)\n\n">>
                       \o Concat([i \in 1..Len(shown) |-> mention(i)])
                  ELSE <<>>
  IN head \o relations \o mentions

EpisodesResponses ==
  {ResolvedUndefined, Resolved(EmptyObj)} \cup {Resolved([episodes |-> l]) : l \in EpisodeLists}

CallGetNodeDetails(slot) ==
  \E args \in NodeDetailsArguments :
    /\ Enter(slot, "zep_get_node_details", TRUE, args)
    /\ Await(slot, "graph.node.get", NodeUuidParams(args))
    /\ UNCHANGED <<locals, result, users, threads, stored>>

NodeGetSettles(slot) ==
  /\ pc[slot] = "graph.node.get"
  /\ \E o \in {Resolved(n) : n \in NodeObjs} \cup Failures :
       IF o.status = "ok"
       THEN /\ locals' = [locals EXCEPT ![slot] = [node |-> o.value]]
            /\ SettleAwait(slot, o, "graph.node.getEdges", NodeUuidParams(request[slot].args))
            /\ UNCHANGED result
       ELSE /\ SettleReturn(slot, o, CatchResult(o.error))
            /\ UNCHANGED locals
  /\ UNCHANGED <<request, seen, users, threads, stored>>

\* getEdges settles and its failure is discarded: the handler goes on with no edges
NodeGetEdgesSettlesSwallowed(slot) ==
  /\ pc[slot] = "graph.node.getEdges"
  /\ \E o \in NodeEdgeResponses \cup Failures :
       /\ locals' = [locals EXCEPT ![slot] =
                       @ @@ [edges |-> IF Has(o, "value") THEN o.value ELSE <<>>]]
       /\ SettleAwait(slot, o, "graph.node.getEpisodes", NodeUuidParams(request[slot].args))
       /\ UNCHANGED result
  /\ UNCHANGED <<request, seen, users, threads, stored>>

NodeGetEdgesSettles(slot) ==
  /\ pc[slot] = "graph.node.getEdges"
  /\ \E o \in NodeEdgeResponses \cup Failures :
       IF o.status = "ok"
       THEN /\ locals' = [locals EXCEPT ![slot] =
                           @ @@ [edges |-> IF Has(o, "value") THEN o.value ELSE <<>>]]
            /\ SettleAwait(slot, o, "graph.node.getEpisodes", NodeUuidParams(request[slot].args))
            /\ UNCHANGED result
       ELSE /\ SettleReturn(slot, o, CatchResult(o.error))
            /\ UNCHANGED locals
  /\ UNCHANGED <<request, seen, users, threads, stored>>

NodeGetEpisodesSettles(slot) ==
  /\ pc[slot] = "graph.node.getEpisodes"
  /\ \E o \in EpisodesResponses \cup Failures :
       LET episodes == IF Has(o, "value") /\ Has(o.value, "episodes") THEN o.value.episodes
                       ELSE <<>>
       IN SettleReturn(slot, o,
            IF o.status = "ok"
            THEN TextResult(NodeDetailsText(locals[slot].node, locals[slot].edges, episodes))
            ELSE CatchResult(o.error))
  /\ UNCHANGED <<request, locals, seen, users, threads, stored>>

----------------------------------------------------------------------------
(* case 'zep_get_thread_context'                                           *)

DefaultMode == "summary"

ThreadContextArguments ==
  {a @@ b : a \in Opt("session_id", Sessions), b \in Opt("mode", ModeValues)}

UserContextParams(args) ==
  Prop("threadId", args, "session_id")
    @@ [options |-> [mode |-> IF Has(args, "mode") THEN args.mode ELSE Str(DefaultMode)]]

ContextText(args, response) ==
  <<"# Relevant Context for Thread: ", StrOf(args, "session_id"), "\n\n",
    OrElse(response, "context", "No relevant context found from past conversations.")>>

ContextResponses ==
  {Resolved(EmptyObj), Resolved([context |-> ""]), Resolved([context |-> "Ann likes tea"])}

CallGetThreadContext(slot) ==
  \E args \in ThreadContextArguments :
    /\ Enter(slot, "zep_get_thread_context", TRUE, args)
    /\ Await(slot, "thread.getUserContext", UserContextParams(args))
    /\ UNCHANGED <<locals, result, users, threads, stored>>

GetUserContextSettles(slot) ==
  /\ pc[slot] = "thread.getUserContext"
  /\ \E o \in ContextResponses \cup Failures :
       SettleReturn(slot, o,
         IF o.status = "ok" THEN TextResult(ContextText(request[slot].args, o.value))
                            ELSE CatchResult(o.error))
  /\ UNCHANGED <<request, locals, seen, users, threads, stored>>

----------------------------------------------------------------------------
(* The server: one client, which awaits each result before its next call.  *)

Next ==
  \E slot \in Slots :
       \/ ListTools(slot)
       \/ CallWithoutArguments(slot)
       \/ CallUnknownTool(slot)
       \/ CallStoreMemory(slot)
       \/ UserAddSettles(slot)
       \/ ThreadCreateSettles(slot)
       \/ AddMessagesSettles(slot)
       \/ CallSearchMemory(slot)
       \/ GraphSearchSettles(slot)
       \/ CallGetMemory(slot)
       \/ ThreadGetSettles(slot)
       \/ CallGetGraphNodes(slot)
       \/ NodeGetByUserIdSettles(slot)
       \/ CallGetGraphEdges(slot)
       \/ EdgeGetByUserIdSettles(slot)
       \/ CallGetNodeDetails(slot)
       \/ NodeGetSettles(slot)
       \/ NodeGetEdgesSettles(slot)
       \/ NodeGetEpisodesSettles(slot)
       \/ CallGetThreadContext(slot)
       \/ GetUserContextSettles(slot)
       \/ SendResult(slot)

Spec == Init /\ [][Next]_vars

----------------------------------------------------------------------------
(* The zep_get_memory case alone, against a remote whose thread already    *)
(* holds messages of any role written before the server started.           *)

HistoryMessages ==
  {[role |-> "user", content |-> "m1"], [role |-> "assistant", content |-> "m2"],
   [role |-> "assistant", content |-> "m3", metadata |-> [category |-> "note"]],
   [role |-> "system", content |-> "m4", metadata |-> EmptyObj], [content |-> "m5"]}

InitGetMemory ==
  /\ pc = [s \in Slots |-> "idle"]
  /\ request = [s \in Slots |-> NoRequest]
  /\ calls = [s \in Slots |-> <<>>]
  /\ locals = [s \in Slots |-> EmptyObj]
  /\ result = [s \in Slots |-> NoResult]
  /\ seen = [s \in Slots |-> {}]
  /\ users = {DefaultUser}
  /\ \E h \in SeqsUpTo(HistoryMessages, MaxItems) : threads = [k \in Sessions |-> h]
  /\ stored = {}

NextGetMemory ==
  \E slot \in Slots : CallGetMemory(slot) \/ ThreadGetSettles(slot) \/ SendResult(slot)

SpecGetMemory == InitGetMemory /\ [][NextGetMemory]_vars

----------------------------------------------------------------------------
(* The server with a client that sends a second request before the result  *)
(* of its first: the handler is an async function, so a second invocation  *)
(* can start while the first awaits a remote call. The client stores one   *)
(* memory and reads the thread back.                                       *)

PipelinedSlots == {1, 2}

InitPipelined ==
  /\ pc = [s \in PipelinedSlots |-> "idle"]
  /\ request = [s \in PipelinedSlots |-> NoRequest]
  /\ calls = [s \in PipelinedSlots |-> <<>>]
  /\ locals = [s \in PipelinedSlots |-> EmptyObj]
  /\ result = [s \in PipelinedSlots |-> NoResult]
  /\ seen = [s \in PipelinedSlots |-> {}]
  /\ users = {}
  /\ threads = EmptyObj
  /\ stored = {}

NextPipelined ==
  \E slot \in PipelinedSlots :
       \/ CallStoreMemory(slot) /\ DOMAIN request'[slot].args = {"session_id", "content"}
       \/ UserAddSettles(slot)
       \/ ThreadCreateSettles(slot)
       \/ AddMessagesSettles(slot)
       \/ CallGetMemory(slot) /\ DOMAIN request'[slot].args = {"session_id"}
       \/ ThreadGetSettles(slot)
       \/ SendResult(slot)

SpecPipelined == InitPipelined /\ [][NextPipelined]_vars

----------------------------------------------------------------------------
(* Properties.                                                             *)

Done(s) == pc[s] = "done" /\ request[s].method = "tools/call"
Called(s, name) == request[s].name = name /\ request[s].hasArgs
LastCall(s) == calls[s][Len(calls[s])]
ResultText(s) == result[s].content[1].text
\* every remote call of the invocation succeeded
Healthy(s) == \A i \in 1..Len(calls[s]) : calls[s][i].outcome.status = "ok"
OneTextItem(res) == Len(res.content) = 1 /\ res.content[1].type = "text"

Preparatory == {"user.add", "thread.create"}

\* C1: a call of a catalog tool that omits one required argument of the
\* tool's schema, the remote answering every call, returns an error result and
\* no remote call is issued for it.
C1_MissingRequiredRejected ==
  \A s \in Slots :
    (/\ Done(s) /\ request[s].name \in ToolNames /\ request[s].hasArgs
     /\ Cardinality(Required(request[s].name) \ DOMAIN request[s].args) = 1
     /\ Healthy(s))
    => IsError(result[s]) /\ calls[s] = <<>>

\* C2: a call whose name is not in the catalog returns an error result whose
\* single text item contains the name, issues no remote call, and its result
\* can be sent, after which the handler is free for the next request.
C2_UnknownToolIsErrorResult ==
  \A s \in Slots :
    (Done(s) /\ request[s].name \notin ToolNames)
    => /\ IsError(result[s])
       /\ OneTextItem(result[s])
       /\ Contains(ResultText(s), request[s].name)
       /\ calls[s] = <<>>
       /\ ENABLED SendResult(s)

C2_Witness ==
  \E s \in Slots :
    Done(s) /\ request[s].name = "zep_delete_memory" /\ IsError(result[s])
      /\ Contains(ResultText(s), "zep_delete_memory")

\* C3: when a remote call other than a preparatory one fails, it is the last
\* call of the invocation and the handler returns an error result whose text
\* is "Error: " followed by the error's message, or by the serialized error
\* when it has no message; the result can be sent.
C3_RemoteFailureIsErrorResult ==
  \A s \in Slots :
    \A i \in 1..Len(calls[s]) :
      (calls[s][i].outcome.status = "failed" /\ calls[s][i].op \notin Preparatory)
      => LET e == calls[s][i].outcome.error IN
         /\ i = Len(calls[s])
         /\ Done(s)
         /\ IsError(result[s])
         /\ OneTextItem(result[s])
         /\ ResultText(s) = <<"Error: ">> \o
              (IF Has(e, "message") /\ ~IsEmptyText(e.message) THEN e.message
               ELSE JSONStringify(e, ErrorKeys))
         /\ ENABLED SendResult(s)

C3_Witness ==
  \E s \in Slots :
    /\ Done(s) /\ Called(s, "zep_get_graph_edges")
    /\ LastCall(s).outcome.status = "failed"
    /\ ~Has(LastCall(s).outcome.error, "message")
    /\ ResultText(s) = <<"Error: ", "{", "\"", "code", "\":\"", "ECONNRESET", "\"", "}">>

StoreOps == <<"user.add", "thread.create", "thread.addMessages">>

\* the remote calls of a store invocation are the first calls of StoreOps in
\* order, each settled before the next is issued; the append targets the
\* caller's session and carries the priming message and the assistant message
\* with the caller's content and the caller's metadata plus stored_at
StoreCallsInOrder(s) ==
  LET cs == calls[s]
      args == request[s].args
      given == IF Has(args, "metadata") THEN args.metadata ELSE EmptyObj
  IN /\ Len(cs) <= 3
     /\ \A i \in 1..Len(cs) :
          /\ cs[i].op = StoreOps[i]
          /\ (i < Len(cs) => cs[i].outcome.status # "pending")
     /\ Len(cs) >= 2 =>
          /\ Has(cs[2].params, "threadId") = Has(args, "session_id")
          /\ (Has(args, "session_id") => cs[2].params.threadId = args.session_id)
     /\ Len(cs) = 3 =>
          LET msgs == cs[3].params.messages IN
          /\ Has(cs[3].params, "threadId") = Has(args, "session_id")
          /\ (Has(args, "session_id") => cs[3].params.threadId = args.session_id)
          /\ Len(msgs) = 2
          /\ msgs[1] = [role |-> "user", content |-> "Store this information"]
          /\ msgs[2].role = "assistant"
          /\ Has(msgs[2], "content") = Has(args, "content")
          /\ (Has(args, "content") => msgs[2].content = args.content)
          /\ DOMAIN msgs[2].metadata = DOMAIN given \cup {"stored_at"}
          /\ \A k \in DOMAIN given \ {"stored_at"} : msgs[2].metadata[k] = given[k]
          /\ msgs[2].metadata.stored_at \in Timestamps
     /\ Done(s) => Len(cs) = 3

\* C4 as stated: every execution of zep_store_memory issues user.add,
\* thread.create and thread.addMessages in this order, each awaited before the
\* next, the append exactly once with the two messages.
C4_EveryStoreCallsInOrder ==
  \A s \in Slots :
    (request[s].method = "tools/call" /\ request[s].name = "zep_store_memory")
    => StoreCallsInOrder(s)

\* C4 amended: every execution of zep_store_memory whose request carries an
\* arguments object issues user.add, thread.create and thread.addMessages in
\* this order, each awaited before the next, the append exactly once with the
\* two messages.
C4_StoreWithArgumentsCallsInOrder ==
  \A s \in Slots : Called(s, "zep_store_memory") => StoreCallsInOrder(s)

C4_Witness ==
  \E s \in Slots :
    /\ Done(s) /\ Called(s, "zep_store_memory")
    /\ request[s].args = [session_id |-> "s1", content |-> "c1", metadata |-> [category |-> "note"]]
    /\ Len(calls[s]) = 3
    /\ calls[s][3].params.messages[2].metadata
         = [category |-> "note", stored_at |-> "2024-01-01T00:00:00.000Z"]

\* C5: in zep_store_memory, whether user.add and thread.create succeed or
\* fail, the next call is still issued, and the result is decided by the
\* append alone: the success text when it succeeds, the error result of the
\* append's own error when it fails.
C5_StoreResultIsAppendResult ==
  \A s \in Slots :
    Called(s, "zep_store_memory") =>
      /\ \A i \in 1..Len(calls[s]) :
           (i <= 2 /\ calls[s][i].outcome.status # "pending") => Len(calls[s]) > i
      /\ Done(s) =>
           /\ Len(calls[s]) = 3
           /\ calls[s][3].op = "thread.addMessages"
           /\ IF calls[s][3].outcome.status = "ok"
              THEN result[s] = TextResult(<<CheckMark, " Stored in thread \"",
                                            StrOf(request[s].args, "session_id"), "\"">>)
              ELSE result[s] = CatchResult(calls[s][3].outcome.error)

C5_Witness ==
  \E s \in Slots :
    /\ Done(s) /\ Called(s, "zep_store_memory")
    /\ calls[s][1].outcome = Failed([message |-> <<"unauthorized">>])
    /\ calls[s][2].outcome = Failed([message |-> <<"unauthorized">>])
    /\ calls[s][3].outcome = Failed([code |-> "ECONNRESET"])
    /\ IsError(result[s])
    /\ ~Contains(ResultText(s), "unauthorized")

\* the get_memory invocation of slot s got the thread's messages from the
\* remote after a store of content c into its session had returned success
GotAfterStore(s, c) ==
  /\ Done(s) /\ Called(s, "zep_get_memory")
  /\ Has(request[s].args, "session_id")
  /\ LastCall(s).outcome.status = "ok"
  /\ <<request[s].args.session_id, c>> \in seen[s]

\* C6 as stated: after a successful zep_store_memory(s, c), zep_get_memory on
\* s returns a non-error result whose text contains c, whatever its optional
\* arguments.
C6_GetAfterStoreContainsContent ==
  \A s \in Slots : \A c \in Contents :
    GotAfterStore(s, c) => ~IsError(result[s]) /\ Contains(ResultText(s), c)

\* C6 amended: after a successful zep_store_memory(s, c), zep_get_memory on s
\* returns a non-error result whose text contains c, for every lastn, limit
\* and cursor, when role_filter is absent or "assistant".
C6_GetAfterStoreContainsContentUnlessFiltered ==
  \A s \in Slots : \A c \in Contents :
    (/\ GotAfterStore(s, c)
     /\ (Has(request[s].args, "role_filter") => request[s].args.role_filter = "assistant"))
    => ~IsError(result[s]) /\ Contains(ResultText(s), c)

C6_Witness ==
  \E s \in Slots :
    /\ GotAfterStore(s, "c1")
    /\ Has(request[s].args, "role_filter") /\ request[s].args.role_filter = "assistant"
    /\ Has(request[s].args, "limit") /\ Has(request[s].args, "cursor")
    /\ Contains(ResultText(s), "c1")

\* the options of the thread.get request of slot s
SentOptions(s) == calls[s][1].params.options

\* the request carries lastn alone when lastn is given, else limit and the
\* cursor that came with it; never lastn together with limit or cursor
PaginationModes(s) ==
  LET a == request[s].args
      o == SentOptions(s)
  IN /\ calls[s][1].op = "thread.get"
     /\ Has(a, "lastn") => o = [lastn |-> a.lastn]
     /\ (~Has(a, "lastn") /\ Has(a, "limit")) =>
          /\ DOMAIN o = {"limit"} \cup (IF Has(a, "cursor") THEN {"cursor"} ELSE {})
          /\ o.limit = a.limit
          /\ (Has(a, "cursor") => o.cursor = a.cursor)
     /\ ~(Has(o, "lastn") /\ (Has(o, "limit") \/ Has(o, "cursor")))

\* C7 as stated: lastn alone when lastn is present; else limit (and cursor)
\* when limit is present; empty options when neither lastn nor limit is
\* present; never lastn together with limit or cursor.
C7_ExactlyOneRetrievalMode ==
  \A s \in Slots :
    (Called(s, "zep_get_memory") /\ calls[s] # <<>>) =>
      /\ PaginationModes(s)
      /\ (~Has(request[s].args, "lastn") /\ ~Has(request[s].args, "limit"))
           => SentOptions(s) = EmptyObj

\* C7 amended: lastn alone when lastn is present; else limit (and cursor)
\* when limit is present; when neither lastn nor limit is present the options
\* hold the caller's cursor if one was supplied and are empty otherwise; never
\* lastn together with limit or cursor.
C7_RetrievalModeWithLoneCursor ==
  \A s \in Slots :
    (Called(s, "zep_get_memory") /\ calls[s] # <<>>) =>
      /\ PaginationModes(s)
      /\ (~Has(request[s].args, "lastn") /\ ~Has(request[s].args, "limit"))
           => IF Has(request[s].args, "cursor")
              THEN SentOptions(s) = [cursor |-> request[s].args.cursor]
              ELSE SentOptions(s) = EmptyObj

C7_Witness ==
  \E s \in Slots :
    /\ Called(s, "zep_get_memory") /\ calls[s] # <<>>
    /\ Has(request[s].args, "lastn") /\ Has(request[s].args, "limit")
    /\ Has(request[s].args, "cursor")
    /\ SentOptions(s) = [lastn |-> 2]

\* C8: the text of a zep_get_memory result begins with "Showing last N
\* messages" when lastn = N is present, with "Showing up to N messages
\* (cursor: C)" when lastn is absent and limit = N and cursor = C are present,
\* cursor 0 included, and with no banner when neither lastn nor limit is
\* present.
C8_BannerFollowsMode ==
  \A s \in Slots :
    (Done(s) /\ Called(s, "zep_get_memory") /\ ~IsError(result[s])) =>
      LET a == request[s].args
          text == ResultText(s)
      IN /\ Has(a, "lastn")
              => StartsWith(text, <<"Showing last ", ToString(a.lastn), " messages:\n\n">>)
         /\ (~Has(a, "lastn") /\ Has(a, "limit") /\ Has(a, "cursor"))
              => StartsWith(text, <<"Showing up to ", ToString(a.limit), " messages",
                                    " (cursor: ", ToString(a.cursor), ")", ":\n\n">>)
         /\ (~Has(a, "lastn") /\ ~Has(a, "limit"))
              => text[1] \notin {"Showing last ", "Showing up to "}

\* the indices of the messages whose role is role, in increasing order
RECURSIVE MatchingIndices(_, _, _)
MatchingIndices(messages, role, from) ==
  IF from > Len(messages) THEN <<>>
  ELSE (IF Has(messages[from], "role") /\ messages[from].role = role THEN <<from>> ELSE <<>>)
       \o MatchingIndices(messages, role, from + 1)

\* C9: role_filter is never part of the remote request; the text of a
\* filtered zep_get_memory result is the banner followed by the entries of
\* exactly the messages whose role is role_filter, in their order and numbered
\* from 1, or by "No memories found in this thread" when none matches.
C9_RoleFilterAppliedAfterRetrieval ==
  \A s \in Slots :
    (Called(s, "zep_get_memory") /\ calls[s] # <<>>) =>
      /\ ~Has(calls[s][1].params, "role_filter")
      /\ DOMAIN SentOptions(s) \subseteq {"lastn", "limit", "cursor"}
      /\ (Done(s) /\ Has(request[s].args, "role_filter") /\ LastCall(s).outcome.status = "ok")
           => LET response == LastCall(s).outcome.value
                  messages == IF Has(response, "messages") THEN response.messages ELSE <<>>
                  idx == MatchingIndices(messages, request[s].args.role_filter, 1)
                  entries == [k \in 1..Len(idx) |-> MessageEntry(messages[idx[k]], k)]
              IN ResultText(s) = Banner(request[s].args) \o
                   (IF Len(idx) = 0 THEN <<"No memories found in this thread">>
                    ELSE Join(entries, "\n\n"))

C9_Witness ==
  \E s \in Slots :
    /\ Done(s) /\ Called(s, "zep_get_memory")
    /\ request[s].args = [session_id |-> "s1", role_filter |-> "assistant"]
    /\ LastCall(s).outcome = Resolved([messages |->
         << [role |-> "user", content |-> "m1"], [role |-> "assistant", content |-> "m2"] >>])
    /\ ResultText(s) = <<"1", ". ", "[", "assistant", "]", " ", "m2">>

\* C10: every call-tool result holds exactly one content item, of type text,
\* whose text is not empty; a search answered with no edges or without edges
\* gives "No results found", and an empty node, edge or message collection
\* gives the sentinel of its tool.
C10_OneNonEmptyTextItem ==
  \A s \in Slots :
    Done(s) =>
      /\ OneTextItem(result[s])
      /\ ~IsEmptyText(ResultText(s))
      /\ (calls[s] # <<>> /\ LastCall(s).outcome.status = "ok" /\ Has(LastCall(s).outcome, "value"))
           => LET v == LastCall(s).outcome.value IN
              /\ (Called(s, "zep_search_memory") /\ (~Has(v, "edges") \/ v.edges = <<>>))
                   => result[s] = TextResult(<<"No results found">>)
              /\ (Called(s, "zep_get_graph_nodes") /\ v = <<>>)
                   => result[s] = TextResult(<<"No nodes found in the knowledge graph">>)
              /\ (Called(s, "zep_get_graph_edges") /\ v = <<>>)
                   => result[s] = TextResult(<<"No edges found in the knowledge graph">>)
              /\ (Called(s, "zep_get_memory") /\ (~Has(v, "messages") \/ v.messages = <<>>))
                   => /\ ~IsError(result[s])
                      /\ ResultText(s)[Len(ResultText(s))] = "No memories found in this thread"

C10_Witness ==
  \E s \in Slots :
    /\ Done(s) /\ Called(s, "zep_search_memory")
    /\ LastCall(s).outcome = Resolved([edges |-> <<>>])
    /\ result[s] = TextResult(<<"No results found">>)

\* the episodes the remote returned to a node-details invocation
ReturnedEpisodes(s) ==
  LET o == LastCall(s).outcome
  IN IF Has(o, "value") /\ Has(o.value, "episodes") THEN o.value.episodes ELSE <<>>

\* the positions of the piece c in the text, as a set
Positions(t, c) == {i \in 1..Len(t) : t[i] = c}

\* C11: a node-details result lists one excerpt for each of the first 5
\* episodes returned and none for a later one, in the order returned; each
\* excerpt is the first 100 characters of the episode's content (the whole
\* content when shorter, the placeholder when there is none).
C11_ExcerptsTruncated ==
  \A s \in Slots :
    (Done(s) /\ Called(s, "zep_get_node_details") /\ Len(calls[s]) = 3 /\ Healthy(s))
    => LET episodes == ReturnedEpisodes(s)
           n == IF Len(episodes) < 5 THEN Len(episodes) ELSE 5
           body(i) ==
             LET e == episodes[i] IN
             IF Has(e, "content") /\ Len(e.content) > 0
             THEN [j \in 1..(IF Len(e.content) < 100 THEN Len(e.content) ELSE 100)
                     |-> e.content[j]]
             ELSE <<"No content">>
           listing == Concat([i \in 1..n |-> <<ToString(i), ". ">> \o body(i) \o <<"...\n">>])
           text == ResultText(s)
           before == SubSeq(text, 1, Len(text) - Len(listing))
       IN /\ Len(listing) <= Len(text)
          /\ SubSeq(text, Len(text) - Len(listing) + 1, Len(text)) = listing
          /\ Positions(before, "...\n") = {}
          /\ Cardinality(Positions(text, "...\n")) <= 5
          /\ \A c \in {"a", "b", "d", "f", "x"} : Cardinality(Positions(text, c)) <= 100

\* six episodes were returned, the first with 101 characters: five excerpts,
\* the first of 100 characters, and nothing of the sixth episode
C11_Witness ==
  \E s \in Slots :
    /\ Done(s) /\ Called(s, "zep_get_node_details") /\ Len(calls[s]) = 3 /\ Healthy(s)
    /\ Len(ReturnedEpisodes(s)) = 6
    /\ Len(ReturnedEpisodes(s)[1].content) = 101
    /\ Cardinality(Positions(ResultText(s), "...\n")) = 5
    /\ Cardinality(Positions(ResultText(s), "a")) = 100
    /\ Positions(ResultText(s), "f") = {}

MultiCall == {"zep_store_memory", "zep_get_node_details"}

\* the result of the invocation is the error result that reports the error e
ReportsFailure(s, e) ==
  /\ Done(s)
  /\ IsError(result[s])
  /\ ResultText(s) = <<"Error: ">> \o
       (IF Has(e, "message") /\ ~IsEmptyText(e.message) THEN e.message
        ELSE JSONStringify(e, ErrorKeys))

\* C12 as stated: in a handler with several remote calls, a failed call is
\* the last call issued and the result is an error result reporting it.
C12_AnyFailureStopsHandler ==
  \A s \in Slots :
    \A i \in 1..Len(calls[s]) :
      (request[s].name \in MultiCall /\ calls[s][i].outcome.status = "failed")
      => i = Len(calls[s]) /\ ReportsFailure(s, calls[s][i].outcome.error)

\* C12: in zep_get_node_details a failed call is the last call issued and the
\* result is an error result reporting it, and so is a failed
\* thread.addMessages in zep_store_memory; a failed user.add or thread.create
\* is followed by the next call of zep_store_memory and is never reported:
\* the store result is an error result exactly when the append failed.
C12_FailureStopsUnlessPreparatory ==
  \A s \in Slots :
    /\ \A i \in 1..Len(calls[s]) :
         (request[s].name \in MultiCall /\ calls[s][i].outcome.status = "failed")
         => IF calls[s][i].op \in {"user.add", "thread.create"}
            THEN /\ i < Len(calls[s])
                 /\ calls[s][i + 1].op = StoreOps[i + 1]
            ELSE /\ i = Len(calls[s])
                 /\ ReportsFailure(s, calls[s][i].outcome.error)
    /\ (Done(s) /\ Called(s, "zep_store_memory"))
         => (IsError(result[s]) <=> LastCall(s).outcome.status = "failed")
    /\ (Done(s) /\ Called(s, "zep_store_memory") /\ IsError(result[s]))
         => LastCall(s).op = "thread.addMessages"

\* getEdges failed after node.get succeeded: getEpisodes was never issued
C12_Witness ==
  \E s \in Slots :
    /\ Done(s) /\ Called(s, "zep_get_node_details")
    /\ Len(calls[s]) = 2
    /\ calls[s][1].outcome.status = "ok"
    /\ calls[s][2].op = "graph.node.getEdges"
    /\ calls[s][2].outcome = Failed([message |-> <<"unauthorized">>])
    /\ ResultText(s) = <<"Error: ", "unauthorized">>

\* a session other than the caller's
OtherSession == "s2"

\* C13: the remote search request of a zep_search_memory call is scoped by
\* the caller's session_id: the session_id is the value of a scoping property
\* of the request, and the same call for another session would have issued a
\* different request.
C13_SearchScopedBySession ==
  \A s \in Slots :
    (/\ Called(s, "zep_search_memory") /\ Len(calls[s]) >= 1
     /\ Has(request[s].args, "session_id") /\ Has(request[s].args, "query"))
    => LET args == request[s].args
           params == calls[s][1].params
       IN /\ \E k \in DOMAIN params \ {"query", "limit"} : params[k] = args.session_id
          /\ params # SearchParams([args EXCEPT !.session_id = OtherSession])

\* the remote operations that write to the remote store, and those that read
Mutating == {"user.add", "thread.create", "thread.addMessages"}
Reading ==
  {"graph.search", "thread.get", "graph.node.getByUserId", "graph.edge.getByUserId",
   "graph.node.get", "graph.node.getEdges", "graph.node.getEpisodes", "thread.getUserContext"}

\* C14: in every step, the remote calls an invocation has issued are write
\* operations only when it handles zep_store_memory, with arguments; the
\* other catalog tools have issued read operations only, an unknown tool, a
\* request without arguments and list-tools none; and the contents of the
\* remote store change only in a step in which a write operation of a
\* zep_store_memory invocation settles.
C14_OnlyStoreMutates ==
  [][ /\ \A s \in Slots :
           /\ \A i \in 1..Len(calls'[s]) :
                /\ calls'[s][i].op \in Mutating \cup Reading
                /\ calls'[s][i].op \in Mutating
                     <=> (request'[s].name = "zep_store_memory" /\ request'[s].hasArgs)
           /\ (request'[s].name \notin ToolNames \/ ~request'[s].hasArgs) => calls'[s] = <<>>
      /\ (users' # users \/ threads' # threads \/ stored' # stored)
           => \E s \in Slots :
                /\ Called(s, "zep_store_memory")
                /\ pc[s] \in Mutating
                /\ calls'[s][Len(calls[s])].outcome.status = "ok" ]_vars

\* a zep_get_memory invocation has read a thread that an earlier store wrote
C14_Witness ==
  \E s \in Slots :
    /\ Done(s) /\ Called(s, "zep_get_memory") /\ ~IsError(result[s])
    /\ Len(calls[s]) = 1 /\ calls[s][1].op = "thread.get"
    /\ stored # {}
    /\ \E k \in DOMAIN threads : Len(threads[k]) = 2

\* the invocations that await a remote call
InProgress == {s \in DOMAIN pc : pc[s] \notin {"idle", "done"}}

Defaulted ==
  {[name |-> "zep_search_memory", key |-> "limit", default |-> Num(10)],
   [name |-> "zep_get_graph_nodes", key |-> "limit", default |-> Num(50)],
   [name |-> "zep_get_graph_edges", key |-> "limit", default |-> Num(50)],
   [name |-> "zep_get_thread_context", key |-> "mode", default |-> Str("summary")]}

\* the value is one the catalog declares for the argument
ValidFor(key, v) ==
  IF key = "limit" THEN v.type = "number"
  ELSE v.type = "string" /\ v.value \in {"summary", "basic"}

\* the value of the argument in the remote request the invocation issued
PassedToRemote(s, key) ==
  IF key = "mode" THEN calls[s][1].params.options.mode ELSE calls[s][1].params.limit

\* C16 as stated: the value passed to the remote call is the declared
\* default whenever the argument is absent or invalid, and the caller's value
\* otherwise.
C16_DefaultWhenAbsentOrInvalid ==
  \A s \in Slots : \A d \in Defaulted :
    (Called(s, d.name) /\ Len(calls[s]) >= 1)
    => LET args == request[s].args
       IN PassedToRemote(s, d.key) =
            IF Has(args, d.key) /\ ValidFor(d.key, args[d.key]) THEN args[d.key] ELSE d.default

\* C16: the value passed to the remote call is the declared default when the
\* argument is absent, and the caller's value whenever the argument is
\* present, a null, a value of the wrong type or a mode outside the enum
\* included.
C16_DefaultWhenAbsent ==
  \A s \in Slots : \A d \in Defaulted :
    (Called(s, d.name) /\ Len(calls[s]) >= 1)
    => LET args == request[s].args
       IN PassedToRemote(s, d.key) = IF Has(args, d.key) THEN args[d.key] ELSE d.default

\* a node listing without a limit has asked the remote for 50 nodes
C16_Witness ==
  \E s \in Slots :
    /\ Called(s, "zep_get_graph_nodes") /\ ~Has(request[s].args, "limit")
    /\ Len(calls[s]) = 1
    /\ calls[s][1].params.limit = Num(50)

====
